---- MODULE Spec2Model ----
(***************************************************************************)
(* A model of the bip32hdwallet key-derivation engine (src/src/bip32.rs,   *)
(* src/src/bip44.rs, src/src/utils.rs).                                    *)
(*                                                                         *)
(* The library is a set of pure functions over immutable values.  Every    *)
(* function is an operator below, computed as the code computes it; the    *)
(* state machine is a caller that holds one value at a time (an extended   *)
(* key, a path, a text) and applies the public operations to it, recording *)
(* each call and its outcome in `call`.                                    *)
(*                                                                         *)
(* Scale.  Bytes are real bytes (0..255), the Base58 alphabet is the real  *)
(* one, depth is a real u8 and the version prefixes are the real ones.     *)
(* The wide fields are kept in miniature so that TLC can enumerate them:   *)
(*    u32 word            4 bytes  ->  WordBytes bytes                     *)
(*    parent fingerprint  4 bytes  ->  FpLen bytes                         *)
(*    chain code         32 bytes  ->  CcLen bytes                         *)
(*    scalar             32 bytes  ->  ScalarLen bytes                     *)
(*    checksum            4 bytes  ->  ChecksumLen bytes                   *)
(*    SHA-256 digest     32 bytes  ->  Sha256Len bytes                     *)
(* secp256k1 is replaced by the subgroup of prime order CurveOrder of the  *)
(* multiplicative group modulo FieldPrime, generated by Generator: a       *)
(* cyclic group of prime order, like the curve, in which "point(k)" is     *)
(* Generator^k and point addition is multiplication modulo FieldPrime.     *)
(* HMAC-SHA512 and SHA-256 are replaced by small deterministic mixing      *)
(* functions over the same inputs.                                         *)
(***************************************************************************)
EXTENDS Integers, Sequences, FiniteSets, TLC

VARIABLES overflow_checks, cur, call, steps

vars == <<overflow_checks, cur, call, steps>>

(***************************************************************************)
(* Widths and bounds                                                       *)
(***************************************************************************)
\* u32 in miniature: a word of WordBytes bytes
WordBytes == 1
\* parent_fingerprint: [u8; 4] in miniature
FpLen == 1
\* chain_code: [u8; 32] in miniature
CcLen == 1
\* the 4-byte checksum in miniature
ChecksumLen == 1
\* longest chain of derivation steps the caller makes from one key
MaxSteps == 2
\* longest path the caller builds or types by hand
MaxPathLen == 2

\* version: [u8; 4]
VersionLen == 4
\* depth: u8
DepthLen == 1
\* a secret key is ScalarLen bytes (32 in secp256k1)
ScalarLen == 1
\* order n of the group (a prime just below 256^ScalarLen, as n is below 2^256)
CurveOrder == 251
\* the group lives in the integers modulo FieldPrime = 2 * CurveOrder + 1
FieldPrime == 503
\* a generator of the subgroup of order CurveOrder
Generator == 4

Byte == 0..255
U8_MAX == 255
U32_MOD == 256 ^ WordBytes
U32_MAX == U32_MOD - 1
Sha256Len == FpLen + ChecksumLen
\* a serialized public key: one prefix byte and ScalarLen bytes (33 in secp256k1)
PointLen == 1 + ScalarLen
\* HMAC-SHA512 output: I_L (a scalar) and I_R (a chain code)
HmacLen == ScalarLen + CcLen

(***************************************************************************)
(* Byte strings                                                            *)
(***************************************************************************)
Zeros(k) == [j \in 1..k |-> 0]

Slice(s, from, to) == [j \in 1..(to - from) |-> s[from + j]]

\* x.to_be_bytes() on len bytes
ToBeBytes(x, len) == [j \in 1..len |-> (x \div (256 ^ (len - j))) % 256]

RECURSIVE FromBeBytesAcc(_, _, _)
FromBeBytesAcc(s, i, acc) ==
    IF i > Len(s) THEN acc ELSE FromBeBytesAcc(s, i + 1, acc * 256 + s[i])

\* u32::from_be_bytes
FromBeBytes(s) == FromBeBytesAcc(s, 1, 0)

(***************************************************************************)
(* Results: Ok(value), Err(kind) or an abort of the call (panic)           *)
(***************************************************************************)
NoValue == [type |-> "none"]
\* hmac counts the hmac_sha512 invocations the call made
Ok(v) == [kind |-> "Ok", val |-> v, err |-> "none", hmac |-> 0]
Err(e) == [kind |-> "Err", val |-> NoValue, err |-> e, hmac |-> 0]
Panic(why) == [kind |-> "Panic", val |-> NoValue, err |-> why, hmac |-> 0]
WithHmac(r, n) == [r EXCEPT !.hmac = n]
IsOk(r) == r.kind = "Ok"
IsErr(r, e) == r.kind = "Err" /\ r.err = e
IsPanic(r) == r.kind = "Panic"
\* the same outcome: the same value, the same error kind, or both aborted
SameResult(a, b) ==
    /\ a.kind = b.kind
    /\ a.kind = "Ok" => a.val = b.val
    /\ a.kind = "Err" => a.err = b.err

(***************************************************************************)
(* Checked arithmetic.  The source adds with `+`: with overflow checks on  *)
(* (debug builds) an overflow aborts the call, with overflow checks off    *)
(* (release builds) the sum wraps.  overflow_checks is the build.          *)
(***************************************************************************)
AddWidth(a, b, modulus) ==
    IF a + b < modulus THEN Ok(a + b)
    ELSE IF overflow_checks THEN Panic("attempt to add with overflow")
    ELSE Ok((a + b) % modulus)

AddU8(a, b) == AddWidth(a, b, U8_MAX + 1)
AddU32(a, b) == AddWidth(a, b, U32_MOD)

(***************************************************************************)
(* Primitive layer: src/src/utils.rs                                       *)
(***************************************************************************)
\* one round of the mixing function the two hash stand-ins share
Mix(h, b) == (h * 33 + b + 1) % 65521

RECURSIVE Absorb(_, _, _)
Absorb(data, i, h) ==
    IF i > Len(data) THEN h ELSE Absorb(data, i + 1, Mix(h, data[i]))

RECURSIVE SqueezeAt(_, _)
SqueezeAt(h, j) == IF j = 0 THEN h ELSE Mix(SqueezeAt(h, j - 1) \div 3, 165)

Squeeze(h, len) == [j \in 1..len |-> SqueezeAt(h, j) % 256]

\* hmac_sha512(key, data): a deterministic function of key and data
hmac_sha512(key, data) ==
    Squeeze(Absorb(data, 1, Absorb(key, 1, 5381 + Len(key))), HmacLen)

\* sha256(data): a deterministic function of data
sha256(data) == Squeeze(Absorb(data, 1, 977 + Len(data)), Sha256Len)

hash_twice(data) == sha256(sha256(data))

\* checksum(data): the first bytes of the double hash
checksum(data) == Slice(hash_twice(data), 0, ChecksumLen)

(***************************************************************************)
(* The curve primitive (secp256k1 in the source)                           *)
(***************************************************************************)
RECURSIVE ModExp(_, _, _)
ModExp(b, e, m) ==
    IF e = 0 THEN 1
    ELSE LET h == ModExp(b, e \div 2, m)
             sq == (h * h) % m
         IN IF e % 2 = 1 THEN (sq * b) % m ELSE sq

\* SecretKey::from_slice: a scalar k with 0 < k < n, else an error
SecretKey_from_slice(bytes) ==
    LET k == FromBeBytes(bytes)
    IN IF Len(bytes) # ScalarLen \/ k = 0 \/ k >= CurveOrder
       THEN Err("InvalidSecretKey")
       ELSE Ok(k)

\* &secret_key[..]: the scalar's big-endian bytes
SecretKey_bytes(k) == ToBeBytes(k, ScalarLen)

\* SecretKey::add_tweak: (k + tweak) mod n, an error when the sum is zero
SecretKey_add_tweak(k, tweak) ==
    LET r == (k + tweak) % CurveOrder
    IN IF r = 0 THEN Err("InvalidTweak") ELSE Ok(r)

\* PublicKey::from_secret_key: point(k)
PublicKey_from_secret_key(k) == ModExp(Generator, k, FieldPrime)

\* the identity of the group
Identity == ModExp(Generator, 0, FieldPrime)

\* PublicKey::combine: the sum of two points, an error when it is the identity
PublicKey_combine(P, Q) ==
    LET r == (P * Q) % FieldPrime
    IN IF r = Identity THEN Err("InvalidPublicKeySum") ELSE Ok(r)

\* PublicKey::serialize: the compressed form, a prefix byte 0x02/0x03 and X
PublicKey_serialize(P) ==
    <<2 + P \div (256 ^ ScalarLen)>> \o ToBeBytes(P % (256 ^ ScalarLen), ScalarLen)

\* PublicKey::from_slice: a compressed point of the group, else an error
PublicKey_from_slice(bytes) ==
    IF Len(bytes) # PointLen \/ bytes[1] \notin {2, 3}
    THEN Err("InvalidPublicKey")
    ELSE LET P == (bytes[1] - 2) * (256 ^ ScalarLen) + FromBeBytes(Tail(bytes))
         IN IF P = 0 \/ P >= FieldPrime \/ P = Identity
               \/ ModExp(P, CurveOrder, FieldPrime) # 1
            THEN Err("InvalidPublicKey")
            ELSE Ok(P)

(***************************************************************************)
(* Network and ChildNumber: src/src/bip32.rs                               *)
(***************************************************************************)
Networks == {"Bitcoin", "Testnet"}

xprv_version(network) ==
    IF network = "Bitcoin" THEN <<4, 136, 173, 228>> ELSE <<4, 53, 131, 148>>

\* public keys written with the private prefix
xpub_version_as_private(network) ==
    IF network = "Bitcoin" THEN <<4, 136, 173, 228>> ELSE <<4, 53, 131, 148>>

xpub_version(network) ==
    IF network = "Bitcoin" THEN <<4, 136, 178, 30>> ELSE <<4, 53, 135, 207>>

\* ChildNumber::MAX_NORMAL_INDEX, 0x7fffffff: the word without its top bit
MAX_NORMAL_INDEX == U32_MOD \div 2 - 1

Normal(i) == [type |-> "child", tag |-> "Normal", i |-> i]
Hardened(i) == [type |-> "child", tag |-> "Hardened", i |-> i]

\* a mutant of is_hardened: it tests the stored index, as for a raw index,
\* not the variant
is_hardened_by_index(cn) == cn.i > MAX_NORMAL_INDEX

\* ChildNumber::is_hardened
is_hardened(cn) == cn.tag = "Hardened"

\* ChildNumber::to_u32: i, or i + MAX_NORMAL_INDEX + 1 (two additions)
to_u32(cn) ==
    IF cn.tag = "Normal" THEN Ok(cn.i)
    ELSE LET first == AddU32(cn.i, MAX_NORMAL_INDEX)
         IN IF IsOk(first) THEN AddU32(first.val, 1) ELSE first

(***************************************************************************)
(* Path text: src/src/bip32.rs.  A path text is a sequence of characters.  *)
(***************************************************************************)
DigitChars == <<"0", "1", "2", "3", "4", "5", "6", "7", "8", "9">>

IsDigit(c) == \E j \in 1..Len(DigitChars) : DigitChars[j] = c

DigitValue(c) == (CHOOSE j \in 1..Len(DigitChars) : DigitChars[j] = c) - 1

\* the digits of str::parse::<u32>, each step a checked multiply and add
RECURSIVE ParseDigits(_, _, _)
ParseDigits(s, i, acc) ==
    IF i > Len(s) THEN Ok(acc)
    ELSE IF ~IsDigit(s[i]) THEN Err("InvalidDigit")
    ELSE IF acc * 10 + DigitValue(s[i]) > U32_MAX THEN Err("PosOverflow")
    ELSE ParseDigits(s, i + 1, acc * 10 + DigitValue(s[i]))

\* str::parse::<u32>: an optional '+', then at least one decimal digit
ParseU32(s) ==
    IF s = <<>> THEN Err("Empty")
    ELSE IF s[1] = "+"
         THEN (IF Len(s) = 1 THEN Err("InvalidDigit") ELSE ParseDigits(s, 2, 0))
         ELSE ParseDigits(s, 1, 0)

\* the decimal form of a number, as write!(f, "{}", i) emits it
RECURSIVE DisplayU32(_)
DisplayU32(n) ==
    IF n < 10 THEN <<DigitChars[n + 1]>>
    ELSE Append(DisplayU32(n \div 10), DigitChars[(n % 10) + 1])

\* a mutant of ChildNumberDisplay: the hardened mark is not written
ChildNumberDisplay_NoMark(cn) == DisplayU32(cn.i)

\* impl Display for ChildNumber
ChildNumberDisplay(cn) ==
    IF cn.tag = "Normal" THEN DisplayU32(cn.i) ELSE Append(DisplayU32(cn.i), "'")

\* impl FromStr for ChildNumber
ChildNumberFromStr(s) ==
    IF s # <<>> /\ s[Len(s)] \in {"'", "h"}
    THEN LET index == ParseU32(SubSeq(s, 1, Len(s) - 1))
         IN IF ~IsOk(index) THEN Err("InvalidDerivationPath")
            ELSE IF index.val > MAX_NORMAL_INDEX THEN Err("InvalidDerivationPath")
            ELSE Ok(Hardened(index.val))
    ELSE LET index == ParseU32(s)
         IN IF ~IsOk(index) THEN Err("InvalidDerivationPath")
            ELSE IF index.val > MAX_NORMAL_INDEX THEN Err("InvalidDerivationPath")
            ELSE Ok(Normal(index.val))

DerivationPath(path) == [type |-> "path", path |-> path]

\* str::split('/'): the pieces between separators, empty ones included
RECURSIVE SplitSlash(_, _, _, _)
SplitSlash(s, i, piece, pieces) ==
    IF i > Len(s) THEN Append(pieces, piece)
    ELSE IF s[i] = "/" THEN SplitSlash(s, i + 1, <<>>, Append(pieces, piece))
    ELSE SplitSlash(s, i + 1, Append(piece, s[i]), pieces)

\* .filter(..).map(parse).collect(): the child numbers of the non-empty
\* pieces, or the first error
RECURSIVE CollectChildNumbers(_, _, _)
CollectChildNumbers(pieces, i, acc) ==
    IF i > Len(pieces) THEN Ok(DerivationPath(acc))
    ELSE IF pieces[i] = <<>> THEN CollectChildNumbers(pieces, i + 1, acc)
    ELSE LET cn == ChildNumberFromStr(pieces[i])
         IN IF ~IsOk(cn) THEN cn
            ELSE CollectChildNumbers(pieces, i + 1, Append(acc, cn.val))

\* DerivationPath::from_str
DerivationPathFromStr(path) ==
    IF path = <<>> \/ path[1] # "m" THEN Err("InvalidDerivationPath")
    ELSE IF Len(path) >= 2 /\ path[2] = "/"
         THEN CollectChildNumbers(SplitSlash(SubSeq(path, 3, Len(path)), 1, <<>>, <<>>), 1, <<>>)
    ELSE IF path = <<"m">> THEN Ok(DerivationPath(<<>>))
    ELSE Err("InvalidDerivationPath")

\* impl Display for DerivationPath
RECURSIVE DerivationPathDisplayFrom(_, _, _)
DerivationPathDisplayFrom(path, i, out) ==
    IF i > Len(path) THEN out
    ELSE DerivationPathDisplayFrom(path, i + 1, (out \o <<"/">>) \o ChildNumberDisplay(path[i]))

DerivationPathDisplay(self) == DerivationPathDisplayFrom(self.path, 1, <<"m">>)

(***************************************************************************)
(* The five-level path: src/src/bip44.rs                                   *)
(***************************************************************************)
PURPOSE_BIP44 == 44

Changes == {"External", "Internal"}

\* Bip44Path::new: unchecked
Bip44New(purpose, coin_type, account, change, address_index) ==
    [type |-> "bip44", purpose |-> purpose, coin_type |-> coin_type,
     account |-> account, change |-> change, address_index |-> address_index]

\* Bip44Path::standard
Bip44Standard(coin_type, account, change, address_index) ==
    Bip44New(PURPOSE_BIP44, coin_type, account, change, address_index)

\* Change::child_number
ChangeChildNumber(change) == IF change = "External" THEN Normal(0) ELSE Normal(1)

\* Bip44Path::to_derivation_path
to_derivation_path(self) ==
    DerivationPath(<<Hardened(self.purpose), Hardened(self.coin_type),
                     Hardened(self.account), ChangeChildNumber(self.change),
                     Normal(self.address_index)>>)

\* from_str taking every normal element but 0 at the change level as Internal
Bip44FromStr_AnyChange(s) ==
    LET parsed == DerivationPathFromStr(s)
    IN IF ~IsOk(parsed) THEN parsed
       ELSE LET path == parsed.val.path
            IN IF Len(path) # 5 THEN Err("InvalidDerivationPath")
               ELSE IF path[1].tag # "Hardened" THEN Err("InvalidDerivationPath")
               ELSE IF path[2].tag # "Hardened" THEN Err("InvalidDerivationPath")
               ELSE IF path[3].tag # "Hardened" THEN Err("InvalidDerivationPath")
               ELSE IF path[4].tag # "Normal" THEN Err("InvalidDerivationPath")
               ELSE IF path[5].tag # "Normal" THEN Err("InvalidDerivationPath")
               ELSE Ok(Bip44New(path[1].i, path[2].i, path[3].i,
                                IF path[4] = Normal(0) THEN "External" ELSE "Internal",
                                path[5].i))

\* impl FromStr for Bip44Path
Bip44FromStr(s) ==
    LET parsed == DerivationPathFromStr(s)
    IN IF ~IsOk(parsed) THEN parsed
       ELSE LET path == parsed.val.path
            IN IF Len(path) # 5 THEN Err("InvalidDerivationPath")
               ELSE IF path[1].tag # "Hardened" THEN Err("InvalidDerivationPath")
               ELSE IF path[2].tag # "Hardened" THEN Err("InvalidDerivationPath")
               ELSE IF path[3].tag # "Hardened" THEN Err("InvalidDerivationPath")
               ELSE IF path[4] \notin {Normal(0), Normal(1)} THEN Err("InvalidDerivationPath")
               ELSE IF path[5].tag # "Normal" THEN Err("InvalidDerivationPath")
               ELSE Ok(Bip44New(path[1].i, path[2].i, path[3].i,
                                IF path[4] = Normal(0) THEN "External" ELSE "Internal",
                                path[5].i))

\* impl Display for Bip44Path: m/{purpose}'/{coin}'/{account}'/{change}/{index}
Bip44Display(self) ==
    <<"m", "/">> \o Append(DisplayU32(self.purpose), "'")
        \o <<"/">> \o Append(DisplayU32(self.coin_type), "'")
        \o <<"/">> \o Append(DisplayU32(self.account), "'")
        \o <<"/">> \o (IF self.change = "External" THEN <<"0">> ELSE <<"1">>)
        \o <<"/">> \o DisplayU32(self.address_index)

(***************************************************************************)
(* Extended keys: src/src/bip32.rs                                         *)
(***************************************************************************)
ExtendedPrivKey(depth, fp, cn, cc, k, network) ==
    [type |-> "priv", depth |-> depth, parent_fingerprint |-> fp,
     child_number |-> cn, chain_code |-> cc, key |-> k, network |-> network]

ExtendedPubKey(depth, fp, cn, cc, P, network) ==
    [type |-> "pub", depth |-> depth, parent_fingerprint |-> fp,
     child_number |-> cn, chain_code |-> cc, key |-> P, network |-> network]

MinSeedLen == 16

\* new_master with the seed length compared by <= instead of <
new_master_over16(seed, network) ==
    IF Len(seed) <= MinSeedLen THEN Err("InvalidSeed")
    ELSE LET hmac_result == hmac_sha512(<<66, 105, 116, 99, 111, 105, 110, 32, 115, 101, 101, 100>>, seed)
             secret_key == Slice(hmac_result, 0, ScalarLen)
             chain_code == Slice(hmac_result, ScalarLen, HmacLen)
             sk == SecretKey_from_slice(secret_key)
         IN IF ~IsOk(sk) THEN WithHmac(Err("InvalidKey"), 1)
            ELSE WithHmac(Ok(ExtendedPrivKey(0, Zeros(FpLen), 0, chain_code, sk.val, network)), 1)

\* a mutant of new_master: I_L is taken as the key without validation
new_master_unchecked(seed, network) ==
    IF Len(seed) < MinSeedLen THEN Err("InvalidSeed")
    ELSE LET hmac_result == hmac_sha512(<<66, 105, 116, 99, 111, 105, 110, 32, 115, 101, 101, 100>>, seed)
         IN WithHmac(Ok(ExtendedPrivKey(0, Zeros(FpLen), 0,
                Slice(hmac_result, ScalarLen, HmacLen),
                FromBeBytes(Slice(hmac_result, 0, ScalarLen)), network)), 1)

\* ExtendedPrivKey::new_master; the HMAC key is the ASCII text "Bitcoin seed"
new_master(seed, network) ==
    IF Len(seed) < MinSeedLen THEN Err("InvalidSeed")
    ELSE LET hmac_result == hmac_sha512(<<66, 105, 116, 99, 111, 105, 110, 32, 115, 101, 101, 100>>, seed)
             secret_key == Slice(hmac_result, 0, ScalarLen)
             chain_code == Slice(hmac_result, ScalarLen, HmacLen)
             sk == SecretKey_from_slice(secret_key)
         IN IF ~IsOk(sk) THEN WithHmac(Err("InvalidKey"), 1)
            ELSE WithHmac(Ok(ExtendedPrivKey(0, Zeros(FpLen), 0, chain_code, sk.val, network)), 1)

\* the first bytes of sha256 of the parent's compressed public key
Fingerprint(P) == Slice(sha256(PublicKey_serialize(P)), 0, FpLen)

\* the HMAC input of CKDpriv: 0x00 || ser256(k) || ser32(index) when hardened,
\* serP(point(k)) || ser32(index) when normal
PrivHmacInput(self, child_number, index) ==
    (IF is_hardened(child_number)
     THEN <<0>> \o SecretKey_bytes(self.key)
     ELSE PublicKey_serialize(PublicKey_from_secret_key(self.key)))
        \o ToBeBytes(index, WordBytes)

\* ExtendedPrivKey::derive_child (CKDpriv)
PrivDeriveChild(self, child_number) ==
    LET public_key == PublicKey_from_secret_key(self.key)
        index == to_u32(child_number)
    IN IF IsPanic(index) THEN index
       ELSE LET hmac_input == PrivHmacInput(self, child_number, index.val)
                hmac_result == hmac_sha512(self.chain_code, hmac_input)
                i_l == Slice(hmac_result, 0, ScalarLen)
                i_r == Slice(hmac_result, ScalarLen, HmacLen)
                parsed == SecretKey_from_slice(i_l)
            IN IF ~IsOk(parsed) THEN WithHmac(Err("InvalidKey"), 1)
               ELSE LET child_private_key == SecretKey_add_tweak(parsed.val, self.key)
                    IN IF ~IsOk(child_private_key) THEN WithHmac(Err("InvalidKey"), 1)
                       ELSE LET depth == AddU8(self.depth, 1)
                            IN IF IsPanic(depth) THEN WithHmac(depth, 1)
                               ELSE WithHmac(Ok(ExtendedPrivKey(
                                        depth.val, Fingerprint(public_key), index.val,
                                        i_r, child_private_key.val, self.network)), 1)

\* ExtendedPrivKey::to_extended_public_key
to_extended_public_key(self) ==
    ExtendedPubKey(self.depth, self.parent_fingerprint, self.child_number,
                   self.chain_code, PublicKey_from_secret_key(self.key), self.network)

\* a mutant of PubHmacInput: the child number is not appended
PubHmacInput_NoIndex(self, index) == PublicKey_serialize(self.key)

\* the HMAC input of CKDpub: serP(K) || ser32(index)
PubHmacInput(self, index) ==
    PublicKey_serialize(self.key) \o ToBeBytes(index, WordBytes)

\* ExtendedPubKey::derive_child (CKDpub)
PubDeriveChild(self, child_number) ==
    IF is_hardened(child_number) THEN Err("HardenedDerivationRequiresPrivateKey")
    ELSE LET index == to_u32(child_number)
         IN IF IsPanic(index) THEN index
            ELSE LET hmac_input == PubHmacInput(self, index.val)
                     hmac_result == hmac_sha512(self.chain_code, hmac_input)
                     i_l == Slice(hmac_result, 0, ScalarLen)
                     i_r == Slice(hmac_result, ScalarLen, HmacLen)
                     hash == SecretKey_from_slice(i_l)
                 IN IF ~IsOk(hash) THEN WithHmac(Err("InvalidKey"), 1)
                    ELSE LET point == PublicKey_from_secret_key(hash.val)
                             child_public_key == PublicKey_combine(self.key, point)
                         IN IF ~IsOk(child_public_key) THEN WithHmac(Err("InvalidKey"), 1)
                            ELSE LET depth == AddU8(self.depth, 1)
                                 IN IF IsPanic(depth) THEN WithHmac(depth, 1)
                                    ELSE WithHmac(Ok(ExtendedPubKey(
                                             depth.val, Fingerprint(self.key), index.val,
                                             i_r, child_public_key.val, self.network)), 1)

\* ExtendedPrivKey::derive_path: the fold of derive_child, stopping at the
\* first step that does not return a key
RECURSIVE PrivDerivePathFrom(_, _, _, _)
PrivDerivePathFrom(key, path, i, hmacs) ==
    IF i > Len(path) THEN WithHmac(Ok(key), hmacs)
    ELSE LET r == PrivDeriveChild(key, path[i])
         IN IF IsOk(r) THEN PrivDerivePathFrom(r.val, path, i + 1, hmacs + r.hmac)
            ELSE WithHmac(r, hmacs + r.hmac)

PrivDerivePath(self, path) == PrivDerivePathFrom(self, path, 1, 0)

\* ExtendedPubKey::derive_path: as above, with its own test for hardened
\* elements before each step
RECURSIVE PubDerivePathFrom(_, _, _, _)
PubDerivePathFrom(key, path, i, hmacs) ==
    IF i > Len(path) THEN WithHmac(Ok(key), hmacs)
    ELSE IF is_hardened(path[i])
         THEN WithHmac(Err("HardenedDerivationRequiresPrivateKey"), hmacs)
         ELSE LET r == PubDeriveChild(key, path[i])
              IN IF IsOk(r) THEN PubDerivePathFrom(r.val, path, i + 1, hmacs + r.hmac)
                 ELSE WithHmac(r, hmacs + r.hmac)

\* derive_path returning after the first element
PubDerivePath_FirstOnly(self, path) ==
    PubDerivePathFrom(self, IF path = <<>> THEN path ELSE <<path[1]>>, 1, 0)

PubDerivePath(self, path) == PubDerivePathFrom(self, path, 1, 0)

(***************************************************************************)
(* Base58 (the bs58 crate) and Base58Check: src/src/utils.rs               *)
(* A text is a sequence of character codes.                                *)
(***************************************************************************)
Range(a, b) == [j \in 1..(b - a + 1) |-> a + j - 1]

\* 123456789ABCDEFGHJKLMNPQRSTUVWXYZabcdefghijkmnopqrstuvwxyz
Base58Alphabet ==
    Range(49, 57) \o Range(65, 72) \o Range(74, 78) \o Range(80, 90)
        \o Range(97, 107) \o Range(109, 122)

Base58Chars == {Base58Alphabet[j] : j \in 1..Len(Base58Alphabet)}

Base58Value(c) == (CHOOSE j \in 1..Len(Base58Alphabet) : Base58Alphabet[j] = c) - 1

RECURSIVE LeadingZeros(_)
LeadingZeros(s) == IF s # <<>> /\ s[1] = 0 THEN 1 + LeadingZeros(Tail(s)) ELSE 0

RECURSIVE StripZeros(_)
StripZeros(s) == IF s # <<>> /\ s[1] = 0 THEN StripZeros(Tail(s)) ELSE s

\* one long division of the big-endian number s (radix from) by the new
\* radix: <<quotient without leading zeros, remainder>>
RECURSIVE LongDiv(_, _, _, _, _, _)
LongDiv(s, i, rem, q, from, to) ==
    IF i > Len(s) THEN <<q, rem>>
    ELSE LET acc == rem * from + s[i]
         IN LongDiv(s, i + 1, acc % to,
                    IF q = <<>> /\ acc \div to = 0 THEN q ELSE Append(q, acc \div to),
                    from, to)

\* the digits in radix `to` of the number whose digits in radix `from` are s
RECURSIVE ConvertRadix(_, _, _)
ConvertRadix(s, from, to) ==
    IF s = <<>> THEN <<>>
    ELSE LET qr == LongDiv(s, 1, 0, <<>>, from, to)
         IN Append(ConvertRadix(qr[1], from, to), qr[2])

\* bs58::encode(bytes).into_string(): a '1' per leading zero byte, then the
\* number in radix 58
bs58_encode(bytes) ==
    LET digits == Zeros(LeadingZeros(bytes)) \o ConvertRadix(StripZeros(bytes), 256, 58)
    IN [j \in 1..Len(digits) |-> Base58Alphabet[digits[j] + 1]]

\* bs58::decode(text).into_vec(): an error on a character outside the
\* alphabet, else a zero byte per leading '1', then the number in radix 256
bs58_decode(text) ==
    IF \E j \in 1..Len(text) : text[j] \notin Base58Chars
    THEN Err("Base58DecodeError")
    ELSE LET digits == [j \in 1..Len(text) |-> Base58Value(text[j])]
         IN Ok(Zeros(LeadingZeros(digits)) \o ConvertRadix(StripZeros(digits), 58, 256))

\* base58check_encode
base58check_encode(data) == bs58_encode(data \o checksum(data))

\* base58check_decode without the comparison of the checksum
base58check_decode_unverified(text) ==
    LET decoded == bs58_decode(text)
    IN IF ~IsOk(decoded) THEN decoded
       ELSE IF Len(decoded.val) < ChecksumLen THEN Err("InvalidChecksum")
       ELSE Ok(Slice(decoded.val, 0, Len(decoded.val) - ChecksumLen))

\* base58check_decode
base58check_decode(text) ==
    LET decoded == bs58_decode(text)
    IN IF ~IsOk(decoded) THEN decoded
       ELSE IF Len(decoded.val) < ChecksumLen THEN Err("InvalidChecksum")
       ELSE LET checksum_index == Len(decoded.val) - ChecksumLen
                data_part == Slice(decoded.val, 0, checksum_index)
                checksum_part == Slice(decoded.val, checksum_index, Len(decoded.val))
            IN IF checksum_part # checksum(data_part) THEN Err("InvalidChecksum")
               ELSE Ok(data_part)

(***************************************************************************)
(* The serialized record: src/src/bip32.rs                                 *)
(*   source offsets 0..4, 4, 5..9, 9..13, 13..45, 45, 46..78               *)
(***************************************************************************)
OffDepth == VersionLen
OffFp == OffDepth + DepthLen
OffCn == OffFp + FpLen
OffCc == OffCn + WordBytes
OffKey == OffCc + CcLen
RecordLen == OffKey + PointLen

\* the record with the main network's prefix whatever the key's network
PrivRecord_MainnetOnly(self) ==
    xprv_version("Bitcoin") \o <<self.depth>> \o self.parent_fingerprint
        \o ToBeBytes(self.child_number, WordBytes) \o self.chain_code
        \o <<0>> \o SecretKey_bytes(self.key)

\* the record ExtendedPrivKey::to_string encodes
PrivRecord(self) ==
    xprv_version(self.network) \o <<self.depth>> \o self.parent_fingerprint
        \o ToBeBytes(self.child_number, WordBytes) \o self.chain_code
        \o <<0>> \o SecretKey_bytes(self.key)

\* ExtendedPrivKey::to_string
PrivToString(self) == base58check_encode(PrivRecord(self))

\* from_string rejecting only the payloads shorter than the record
PrivFromRecord_AtLeast(data) ==
    IF Len(data) < RecordLen THEN Err("InvalidExtendedKey")
    ELSE LET version == Slice(data, 0, VersionLen)
         IN IF version \notin {xprv_version(n) : n \in Networks}
            THEN Err("InvalidExtendedKey")
            ELSE LET network == IF version = xprv_version("Bitcoin")
                                THEN "Bitcoin" ELSE "Testnet"
                     depth == data[OffDepth + 1]
                     parent_fingerprint == Slice(data, OffFp, OffCn)
                     child_number == FromBeBytes(Slice(data, OffCn, OffCc))
                     chain_code == Slice(data, OffCc, OffKey)
                 IN IF data[OffKey + 1] # 0 THEN Err("InvalidExtendedKey")
                    ELSE LET private_key ==
                                 SecretKey_from_slice(Slice(data, OffKey + 1, RecordLen))
                         IN IF ~IsOk(private_key) THEN Err("InvalidKey")
                            ELSE Ok(ExtendedPrivKey(depth, parent_fingerprint,
                                     child_number, chain_code, private_key.val, network))

\* ExtendedPrivKey::from_string, from the decoded payload on
PrivFromRecord(data) ==
    IF Len(data) # RecordLen THEN Err("InvalidExtendedKey")
    ELSE LET version == Slice(data, 0, VersionLen)
         IN IF version \notin {xprv_version(n) : n \in Networks}
            THEN Err("InvalidExtendedKey")
            ELSE LET network == IF version = xprv_version("Bitcoin")
                                THEN "Bitcoin" ELSE "Testnet"
                     depth == data[OffDepth + 1]
                     parent_fingerprint == Slice(data, OffFp, OffCn)
                     child_number == FromBeBytes(Slice(data, OffCn, OffCc))
                     chain_code == Slice(data, OffCc, OffKey)
                 IN IF data[OffKey + 1] # 0 THEN Err("InvalidExtendedKey")
                    ELSE LET private_key ==
                                 SecretKey_from_slice(Slice(data, OffKey + 1, RecordLen))
                         IN IF ~IsOk(private_key) THEN Err("InvalidKey")
                            ELSE Ok(ExtendedPrivKey(depth, parent_fingerprint,
                                     child_number, chain_code, private_key.val, network))

\* ExtendedPrivKey::from_string
PrivFromString(text) ==
    LET data == base58check_decode(text)
    IN IF ~IsOk(data) THEN data ELSE PrivFromRecord(data.val)

\* the record ExtendedPubKey::to_string encodes
PubRecord(self) ==
    xpub_version(self.network) \o <<self.depth>> \o self.parent_fingerprint
        \o ToBeBytes(self.child_number, WordBytes) \o self.chain_code
        \o PublicKey_serialize(self.key)

\* ExtendedPubKey::to_string
PubToString(self) == base58check_encode(PubRecord(self))

\* ExtendedPubKey::from_string, from the decoded payload on
PubFromRecord(data) ==
    IF Len(data) # RecordLen THEN Err("InvalidExtendedKey")
    ELSE LET version == Slice(data, 0, VersionLen)
         IN IF version \notin {xpub_version(n) : n \in Networks}
            THEN Err("InvalidExtendedKey")
            ELSE LET network == IF version = xpub_version("Bitcoin")
                                THEN "Bitcoin" ELSE "Testnet"
                     depth == data[OffDepth + 1]
                     parent_fingerprint == Slice(data, OffFp, OffCn)
                     child_number == FromBeBytes(Slice(data, OffCn, OffCc))
                     chain_code == Slice(data, OffCc, OffKey)
                     public_key == PublicKey_from_slice(Slice(data, OffKey, RecordLen))
                 IN IF ~IsOk(public_key) THEN Err("InvalidKey")
                    ELSE Ok(ExtendedPubKey(depth, parent_fingerprint,
                             child_number, chain_code, public_key.val, network))

\* ExtendedPubKey::from_string
PubFromString(text) ==
    LET data == base58check_decode(text)
    IN IF ~IsOk(data) THEN data ELSE PubFromRecord(data.val)

(***************************************************************************)
(* The caller's inputs                                                     *)
(***************************************************************************)
\* a seed of len bytes, told apart by its first byte
Seed(len, b) == [j \in 1..len |-> IF j = 1 THEN b ELSE j]

SeedLens == {MinSeedLen - 1, MinSeedLen, MinSeedLen + 1}
\* with first byte 19 the 16-byte seed hashes to an I_L that is no valid scalar
SeedFirstBytes == {0, 1, 19}
Seeds == {Seed(len, b) : len \in SeedLens, b \in SeedFirstBytes}

\* indices at the edges of the word: the caller can build either variant
\* of ChildNumber around any u32
EdgeIndices == {0, MAX_NORMAL_INDEX, MAX_NORMAL_INDEX + 1}
ChildNumbers == {Normal(i) : i \in EdgeIndices} \cup {Hardened(i) : i \in EdgeIndices}

RECURSIVE SeqsUpTo(_, _)
SeqsUpTo(S, n) ==
    IF n = 0 THEN {<<>>}
    ELSE LET shorter == SeqsUpTo(S, n - 1)
         IN shorter \cup {Append(q, x) : q \in {r \in shorter : Len(r) = n - 1}, x \in S}

\* keys as another wallet could have written them: any depth, any child
\* number, any fingerprint
EdgeDepths == {U8_MAX - 1, U8_MAX}
ForeignPrivKeys ==
    {ExtendedPrivKey(d, ToBeBytes(7, FpLen), cn, ToBeBytes(9, CcLen), k, "Testnet") :
        d \in EdgeDepths, cn \in {U32_MAX}, k \in {1, CurveOrder - 1}}
\* records whose scalar bytes are 0, n and the largest value of the field
OutOfRangeScalars == {0, CurveOrder, 256 ^ ScalarLen - 1}
MalformedPrivKeys ==
    {ExtendedPrivKey(1, ToBeBytes(7, FpLen), 0, ToBeBytes(9, CcLen), k, "Bitcoin") :
        k \in OutOfRangeScalars}
\* a key whose child Normal(0) has an I_L of zero (key 3 with chain code 7
\* has it for Hardened(0))
ZeroLeftHalfKeys ==
    {ExtendedPrivKey(1, ToBeBytes(7, FpLen), 0, ToBeBytes(52, CcLen), 1, "Bitcoin"),
     ExtendedPrivKey(1, ToBeBytes(7, FpLen), 0, ToBeBytes(7, CcLen), 3, "Bitcoin")}
ForeignPrivTexts ==
    {PrivToString(k) : k \in ForeignPrivKeys \cup MalformedPrivKeys \cup ZeroLeftHalfKeys}
ForeignPubTexts ==
    {PubToString(to_extended_public_key(k)) : k \in ForeignPrivKeys \cup ZeroLeftHalfKeys}

(***************************************************************************)
(* The key engine's caller                                                 *)
(***************************************************************************)
NoCall == [op |-> "none", self |-> NoValue, arg |-> NoValue, res |-> Ok(NoValue)]

Called(op, self, arg, res) == [op |-> op, self |-> self, arg |-> arg, res |-> res]

Init ==
    /\ overflow_checks \in BOOLEAN
    /\ cur = NoValue
    /\ call = NoCall
    /\ steps = 0

\* after a call that returns a value the caller holds that value
Keep(res) == IF IsOk(res) THEN res.val ELSE cur

\* the calls that read a text
ParseOps ==
    {"DerivationPathFromStr", "Bip44FromStr", "PrivFromString", "PubFromString"}

\* how the text in hand was made: the call that produced it.  A parsing
\* call records it as its arg.
Origin ==
    IF call.op \in ParseOps THEN call.arg
    ELSE [op |-> call.op, self |-> call.self, arg |-> call.arg]

NewMaster ==
    /\ cur.type = "none"
    /\ \E seed \in Seeds, network \in Networks :
          LET res == new_master(seed, network)
          IN /\ call' = Called("new_master", NoValue, [seed |-> seed, network |-> network], res)
             /\ cur' = Keep(res)
    /\ UNCHANGED <<overflow_checks, steps>>

ImportPriv ==
    /\ cur.type = "none"
    /\ \E text \in ForeignPrivTexts :
          LET res == PrivFromString(text)
          IN /\ call' = Called("PrivFromString", NoValue, text, res)
             /\ cur' = Keep(res)
    /\ UNCHANGED <<overflow_checks, steps>>

ImportPub ==
    /\ cur.type = "none"
    /\ \E text \in ForeignPubTexts :
          LET res == PubFromString(text)
          IN /\ call' = Called("PubFromString", NoValue, text, res)
             /\ cur' = Keep(res)
    /\ UNCHANGED <<overflow_checks, steps>>

DeriveChild ==
    /\ cur.type = "priv"
    /\ steps < MaxSteps
    /\ \E cn \in ChildNumbers :
          LET res == PrivDeriveChild(cur, cn)
          IN /\ call' = Called("PrivDeriveChild", cur, cn, res)
             /\ cur' = Keep(res)
    /\ steps' = steps + 1
    /\ UNCHANGED overflow_checks

DerivePath ==
    /\ cur.type = "priv"
    /\ \E path \in SeqsUpTo(ChildNumbers, MaxSteps - steps) :
          LET res == PrivDerivePath(cur, path)
          IN /\ call' = Called("PrivDerivePath", cur, path, res)
             /\ cur' = Keep(res)
             /\ steps' = steps + Len(path)
    /\ UNCHANGED overflow_checks

ToPublic ==
    /\ cur.type = "priv"
    /\ LET res == Ok(to_extended_public_key(cur))
       IN /\ call' = Called("to_extended_public_key", cur, NoValue, res)
          /\ cur' = res.val
    /\ UNCHANGED <<overflow_checks, steps>>

PubDerive ==
    /\ cur.type = "pub"
    /\ steps < MaxSteps
    /\ \E cn \in ChildNumbers :
          LET res == PubDeriveChild(cur, cn)
          IN /\ call' = Called("PubDeriveChild", cur, cn, res)
             /\ cur' = Keep(res)
    /\ steps' = steps + 1
    /\ UNCHANGED overflow_checks

PubPath ==
    /\ cur.type = "pub"
    /\ \E path \in SeqsUpTo(ChildNumbers, MaxSteps - steps) :
          LET res == PubDerivePath(cur, path)
          IN /\ call' = Called("PubDerivePath", cur, path, res)
             /\ cur' = Keep(res)
             /\ steps' = steps + Len(path)
    /\ UNCHANGED overflow_checks

Next ==
    \/ NewMaster
    \/ ImportPriv
    \/ ImportPub
    \/ DeriveChild
    \/ DerivePath
    \/ ToPublic
    \/ PubDerive
    \/ PubPath

Spec == Init /\ [][Next]_vars

(***************************************************************************)
(* The path algebra's caller                                               *)
(***************************************************************************)
Text(chars) == [type |-> "text", chars |-> chars]

\* numbers at the edges of the word, and one past it
EdgeNumbers == {0, MAX_NORMAL_INDEX, MAX_NORMAL_INDEX + 1, U32_MAX, U32_MOD}
NumberTexts ==
    {DisplayU32(v) : v \in EdgeNumbers}
        \cup {<<>>, <<"+", "1">>, <<"+">>, <<"-", "1">>, <<"0", "0", "7">>, <<"x">>}
Suffixes == {<<>>, <<"'">>, <<"h">>, <<"H">>, <<"'", "'">>}
TokenTexts == {n \o x : n \in NumberTexts, x \in Suffixes}

\* the tokens of hand-written paths
PathTokens ==
    {<<>>, <<"0">>, <<"0", "'">>, <<"1", "h">>, <<"+", "1">>, <<"x">>}
        \cup {DisplayU32(MAX_NORMAL_INDEX) \o <<"'">>, DisplayU32(MAX_NORMAL_INDEX + 1)}

RECURSIVE JoinTokens(_, _, _)
JoinTokens(tokens, i, out) ==
    IF i > Len(tokens) THEN out
    ELSE JoinTokens(tokens, i + 1, (out \o <<"/">>) \o tokens[i])

MalformedPathTexts ==
    {<<>>, <<"M">>, <<"M", "/", "0">>, <<"m", "m">>, <<"m", "0">>, <<"/", "0">>,
     <<"0">>, <<"m", " ">>}
PathTexts ==
    {JoinTokens(q, 1, <<"m">>) : q \in SeqsUpTo(PathTokens, MaxPathLen)}
        \cup MalformedPathTexts

\* the u32 values the caller wraps in Purpose, CoinType, AccountLevel, AddressIndex
Bip44Numbers == {0, PURPOSE_BIP44, MAX_NORMAL_INDEX, MAX_NORMAL_INDEX + 1}

\* hand-written texts of five levels, each level any of the tokens, and
\* texts of four and of six levels, with an empty segment, with a bad token
Bip44Levels == 5
Bip44Tokens == {<<"0">>, <<"1">>, <<"2">>, <<"0", "'">>, <<"1", "h">>}
Bip44Texts ==
    {JoinTokens(q, 1, <<"m">>) : q \in [1..Bip44Levels -> Bip44Tokens]}
        \cup {JoinTokens(q, 1, <<"m">>) :
                q \in {<<<<"0", "'">>, <<"0", "'">>, <<"0", "'">>, <<"0">>>>,
                       <<<<"0", "'">>, <<"0", "'">>, <<"0", "'">>, <<"0">>, <<"0">>, <<"0">>>>,
                       <<<<"0", "'">>, <<"0", "'">>, <<>>, <<"0", "'">>, <<"0">>, <<"0">>>>,
                       <<<<"0", "'">>, <<"0", "'">>, <<"0", "'">>, <<"0">>, <<"x">>>>}}

InitPath == Init

BuildPath ==
    /\ cur.type = "none"
    /\ \E q \in SeqsUpTo(ChildNumbers, MaxPathLen) :
          /\ call' = Called("DerivationPath", NoValue, NoValue, Ok(DerivationPath(q)))
          /\ cur' = DerivationPath(q)
    /\ UNCHANGED <<overflow_checks, steps>>

DisplayPath ==
    /\ cur.type = "path"
    /\ LET res == Ok(Text(DerivationPathDisplay(cur)))
       IN /\ call' = Called("DerivationPathDisplay", cur, NoValue, res)
          /\ cur' = res.val
    /\ UNCHANGED <<overflow_checks, steps>>

TypePath ==
    /\ cur.type = "none"
    /\ \E t \in PathTexts :
          /\ call' = Called("text", NoValue, NoValue, Ok(Text(t)))
          /\ cur' = Text(t)
    /\ UNCHANGED <<overflow_checks, steps>>

ParsePath ==
    /\ cur.type = "text"
    /\ LET res == DerivationPathFromStr(cur.chars)
       IN /\ call' = Called("DerivationPathFromStr", cur, Origin, res)
          /\ cur' = Keep(res)
    /\ UNCHANGED <<overflow_checks, steps>>

ParseChildNumber ==
    /\ cur.type = "none"
    /\ \E t \in TokenTexts :
          LET res == ChildNumberFromStr(t)
          IN /\ call' = Called("ChildNumberFromStr", Text(t), NoValue, res)
             /\ cur' = Keep(res)
    /\ UNCHANGED <<overflow_checks, steps>>

BuildChildNumber ==
    /\ cur.type = "none"
    /\ \E cn \in ChildNumbers :
          /\ call' = Called("ChildNumber", NoValue, NoValue, Ok(cn))
          /\ cur' = cn
    /\ UNCHANGED <<overflow_checks, steps>>

ToU32 ==
    /\ cur.type = "child"
    /\ call.op # "to_u32"
    /\ call' = Called("to_u32", cur, NoValue, to_u32(cur))
    /\ UNCHANGED <<overflow_checks, cur, steps>>

DisplayChildNumber ==
    /\ cur.type = "child"
    /\ LET res == Ok(Text(ChildNumberDisplay(cur)))
       IN /\ call' = Called("ChildNumberDisplay", cur, NoValue, res)
          /\ cur' = res.val
    /\ UNCHANGED <<overflow_checks, steps>>

MakeBip44 ==
    /\ cur.type = "none"
    /\ \E p \in Bip44Numbers, c \in Bip44Numbers, a \in Bip44Numbers,
          ch \in Changes, i \in Bip44Numbers :
          LET res == Ok(Bip44New(p, c, a, ch, i))
          IN /\ call' = Called("Bip44New", NoValue, NoValue, res)
             /\ cur' = res.val
    /\ UNCHANGED <<overflow_checks, steps>>

MakeStandard ==
    /\ cur.type = "none"
    /\ \E c \in Bip44Numbers, a \in Bip44Numbers, ch \in Changes, i \in Bip44Numbers :
          LET res == Ok(Bip44Standard(c, a, ch, i))
          IN /\ call' = Called("Bip44Standard", NoValue, NoValue, res)
             /\ cur' = res.val
    /\ UNCHANGED <<overflow_checks, steps>>

ProjectBip44 ==
    /\ cur.type = "bip44"
    /\ LET res == Ok(to_derivation_path(cur))
       IN /\ call' = Called("to_derivation_path", cur, NoValue, res)
          /\ cur' = res.val
    /\ UNCHANGED <<overflow_checks, steps>>

DisplayBip44 ==
    /\ cur.type = "bip44"
    /\ LET res == Ok(Text(Bip44Display(cur)))
       IN /\ call' = Called("Bip44Display", cur, NoValue, res)
          /\ cur' = res.val
    /\ UNCHANGED <<overflow_checks, steps>>

TypeBip44 ==
    /\ cur.type = "none"
    /\ \E t \in Bip44Texts :
          /\ call' = Called("text", NoValue, NoValue, Ok(Text(t)))
          /\ cur' = Text(t)
    /\ UNCHANGED <<overflow_checks, steps>>

ParseBip44 ==
    /\ cur.type = "text"
    /\ LET res == Bip44FromStr(cur.chars)
       IN /\ call' = Called("Bip44FromStr", cur, Origin, res)
          /\ cur' = Keep(res)
    /\ UNCHANGED <<overflow_checks, steps>>

NextPath ==
    \/ BuildPath
    \/ DisplayPath
    \/ TypePath
    \/ ParsePath
    \/ ParseChildNumber
    \/ BuildChildNumber
    \/ ToU32
    \/ DisplayChildNumber
    \/ MakeBip44
    \/ MakeStandard
    \/ ProjectBip44
    \/ DisplayBip44
    \/ TypeBip44
    \/ ParseBip44

SpecPath == InitPath /\ [][NextPath]_vars

(***************************************************************************)
(* The key codec's caller: keys written field by field (every field of the *)
(* two structs is public), their texts, and texts altered or made by hand  *)
(***************************************************************************)
\* <<depth, parent fingerprint, child number, chain code>>: a master's
\* fields, the largest value of every field, and two mixtures
SampleFields ==
    {<<0, Zeros(FpLen), 0, Zeros(CcLen)>>,
     <<U8_MAX, [j \in 1..FpLen |-> U8_MAX], U32_MAX, [j \in 1..CcLen |-> U8_MAX]>>,
     <<0, [j \in 1..FpLen |-> U8_MAX], U32_MAX, Zeros(CcLen)>>,
     <<U8_MAX, Zeros(FpLen), 0, [j \in 1..CcLen |-> U8_MAX]>>}
SampleScalars == {1, CurveOrder - 1}

SamplePrivKeys ==
    {ExtendedPrivKey(f[1], f[2], f[3], f[4], k, n) :
        f \in SampleFields, k \in SampleScalars, n \in Networks}

SamplePubKeys ==
    {ExtendedPubKey(f[1], f[2], f[3], f[4], PublicKey_from_secret_key(k), n) :
        f \in SampleFields, k \in SampleScalars, n \in Networks}

\* x with bit b flipped
FlipBitOf(x, b) ==
    IF (x \div (2 ^ b)) % 2 = 1 THEN x - 2 ^ b ELSE x + 2 ^ b

BitsPerChar == 8

\* a text made by hand: which of the checks of from_string it is to fail
\*   alien     a character outside the alphabet put last (0: none)
\*   checksum  TRUE: the first checksum byte is changed
\*   len       bytes added to (+1) or dropped from (-1) the record
\*   version   the private prefix, the public prefix or an unknown one
\*   prefix    the byte before the scalar
\*   scalar    the number in the scalar's bytes
AlienChars == {48, 108}
CraftFlags ==
    [alien : {0} \cup AlienChars, checksum : BOOLEAN, len : {-1, 0, 1},
     version : {"priv", "pub", "unknown"}, prefix : {0, 1},
     scalar : {1} \cup OutOfRangeScalars]

CraftRecord(f) ==
    LET version == IF f.version = "priv" THEN xprv_version("Bitcoin")
                   ELSE IF f.version = "pub" THEN xpub_version("Bitcoin")
                   ELSE Zeros(VersionLen)
        record == version \o <<1>> \o ToBeBytes(7, FpLen) \o ToBeBytes(0, WordBytes)
                      \o ToBeBytes(9, CcLen) \o <<f.prefix>>
                      \o ToBeBytes(f.scalar, ScalarLen)
    IN IF f.len < 0 THEN SubSeq(record, 1, Len(record) - 1)
       ELSE IF f.len > 0 THEN Append(record, 0)
       ELSE record

CraftText(f) ==
    LET record == CraftRecord(f)
        sum == checksum(record)
        check == IF f.checksum THEN [sum EXCEPT ![1] = (@ + 1) % 256] ELSE sum
        text == bs58_encode(record \o check)
    IN IF f.alien # 0 THEN [text EXCEPT ![Len(text)] = f.alien] ELSE text

InitCodec == Init

MakePrivKey ==
    /\ cur.type = "none"
    /\ \E k \in SamplePrivKeys :
          /\ call' = Called("ExtendedPrivKey", NoValue, NoValue, Ok(k))
          /\ cur' = k
    /\ UNCHANGED <<overflow_checks, steps>>

MakePubKey ==
    /\ cur.type = "none"
    /\ \E k \in SamplePubKeys :
          /\ call' = Called("ExtendedPubKey", NoValue, NoValue, Ok(k))
          /\ cur' = k
    /\ UNCHANGED <<overflow_checks, steps>>

EncodePriv ==
    /\ cur.type = "priv"
    /\ LET res == Ok(Text(PrivToString(cur)))
       IN /\ call' = Called("PrivToString", cur, NoValue, res)
          /\ cur' = res.val
    /\ UNCHANGED <<overflow_checks, steps>>

EncodePub ==
    /\ cur.type = "pub"
    /\ LET res == Ok(Text(PubToString(cur)))
       IN /\ call' = Called("PubToString", cur, NoValue, res)
          /\ cur' = res.val
    /\ UNCHANGED <<overflow_checks, steps>>

\* the caller flips one bit of the text of a key
FlipBit ==
    /\ cur.type = "text"
    /\ call.op \in {"PrivToString", "PubToString"}
    /\ \E pos \in 1..Len(cur.chars), bit \in 0..(BitsPerChar - 1) :
          LET text == Text([cur.chars EXCEPT ![pos] = FlipBitOf(@, bit)])
          IN /\ call' = Called("FlipBit", call.self, [pos |-> pos, bit |-> bit], Ok(text))
             /\ cur' = text
    /\ UNCHANGED <<overflow_checks, steps>>

Craft ==
    /\ cur.type = "none"
    /\ \E f \in CraftFlags :
          LET text == Text(CraftText(f))
          IN /\ call' = Called("Craft", NoValue, f, Ok(text))
             /\ cur' = text
    /\ UNCHANGED <<overflow_checks, steps>>

DecodePriv ==
    /\ cur.type = "text"
    /\ LET res == PrivFromString(cur.chars)
       IN /\ call' = Called("PrivFromString", cur, Origin, res)
          /\ cur' = Keep(res)
    /\ UNCHANGED <<overflow_checks, steps>>

DecodePub ==
    /\ cur.type = "text"
    /\ LET res == PubFromString(cur.chars)
       IN /\ call' = Called("PubFromString", cur, Origin, res)
          /\ cur' = Keep(res)
    /\ UNCHANGED <<overflow_checks, steps>>

NextCodec ==
    \/ MakePrivKey
    \/ MakePubKey
    \/ EncodePriv
    \/ EncodePub
    \/ FlipBit
    \/ Craft
    \/ DecodePriv
    \/ DecodePub

SpecCodec == InitCodec /\ [][NextCodec]_vars

(***************************************************************************)
(* Claims about the key engine, checked under Spec                         *)
(***************************************************************************)
IsHardenedVariant(cn) == cn.tag = "Hardened"

\* the public derivation the caller would make independently of call
PublicSide == PubDeriveChild(to_extended_public_key(call.self), call.arg)

\* C1: public projection commutes with non-hardened derivation: after
\* K.derive_child(Normal(i)), the projection of the child equals the child
\* of the projection field for field, one side returns a key exactly when
\* the other does, and one fails with InvalidKey exactly when the other does.
C1_ProjectionCommutes ==
    (call.op = "PrivDeriveChild" /\ ~IsHardenedVariant(call.arg)) =>
        /\ IsOk(call.res) <=> IsOk(PublicSide)
        /\ IsOk(call.res) => to_extended_public_key(call.res.val) = PublicSide.val
        /\ IsErr(call.res, "InvalidKey") <=> IsErr(PublicSide, "InvalidKey")

\* a non-hardened child derived from a key that is itself a child
C1_Witness ==
    /\ call.op = "PrivDeriveChild"
    /\ ~IsHardenedVariant(call.arg)
    /\ call.self.depth = 1
    /\ IsOk(call.res)
    /\ call.res.val.parent_fingerprint # call.self.parent_fingerprint

\* a non-hardened derivation that fails with InvalidKey
C1_WitnessInvalidKey ==
    /\ call.op = "PrivDeriveChild"
    /\ ~IsHardenedVariant(call.arg)
    /\ IsErr(call.res, "InvalidKey")

\* C3: depth monotonicity: every successful derive_child, private or
\* public, returns a child whose depth is the parent's depth plus one, for
\* every parent depth 0..255.
C3_DepthPlusOne ==
    (call.op \in {"PrivDeriveChild", "PubDeriveChild"} /\ IsOk(call.res)) =>
        call.res.val.depth = call.self.depth + 1

\* C4: error boundary: every call returns a value or a typed error; no
\* call aborts.
C4_NoAbort == ~IsPanic(call.res)

\* the index of the first hardened element of a path (0 when there is none)
FirstHardened(path) ==
    IF \E j \in 1..Len(path) : IsHardenedVariant(path[j])
    THEN CHOOSE j \in 1..Len(path) :
            /\ IsHardenedVariant(path[j])
            /\ \A l \in 1..(j - 1) : ~IsHardenedVariant(path[l])
    ELSE 0

\* C5: hardened rejection on the public side: derive_child(Hardened(i))
\* returns HardenedDerivationRequiresPrivateKey without any HMAC
\* computation, and derive_path returns that error when the path has a
\* hardened element and the elements before the first one derive.
C5_HardenedRejected ==
    /\ (call.op = "PubDeriveChild" /\ IsHardenedVariant(call.arg)) =>
            /\ IsErr(call.res, "HardenedDerivationRequiresPrivateKey")
            /\ call.res.hmac = 0
    /\ (call.op = "PubDerivePath" /\ FirstHardened(call.arg) > 0) =>
            LET before == SubSeq(call.arg, 1, FirstHardened(call.arg) - 1)
            IN IsOk(PubDerivePath(call.self, before)) =>
                  /\ IsErr(call.res, "HardenedDerivationRequiresPrivateKey")
                  /\ call.res.hmac = Len(before)

\* a public path whose second element is hardened and whose first derives
C5_Witness ==
    /\ call.op = "PubDerivePath"
    /\ FirstHardened(call.arg) = 2
    /\ IsOk(PubDeriveChild(call.self, call.arg[1]))
    /\ IsErr(call.res, "HardenedDerivationRequiresPrivateKey")

\* the extended private keys a call has returned
ReturnedPrivKeys ==
    {k \in {cur} \cup (IF IsOk(call.res) THEN {call.res.val} ELSE {}) : k.type = "priv"}

\* C8: private-key invariant: every ExtendedPrivKey returned by new_master,
\* derive_child, derive_path or from_string holds a scalar k with 0 < k < n.
C8_PrivateKeyValid ==
    \A k \in ReturnedPrivKeys : 0 < k.key /\ k.key < CurveOrder

\* a derived key, two steps below a key that was returned by a call
C8_Witness ==
    /\ call.op \in {"PrivDeriveChild", "PrivDerivePath"}
    /\ IsOk(call.res)
    /\ steps = MaxSteps
    /\ cur = call.res.val

\* I = HMAC-SHA512(key "Bitcoin seed", seed)
SeedHmac(seed) ==
    hmac_sha512(<<66, 105, 116, 99, 111, 105, 110, 32, 115, 101, 101, 100>>, seed)

\* the number in the left half of I
LeftNumber(I) == FromBeBytes(SubSeq(I, 1, ScalarLen))

\* the right half of I
RightHalf(I) == SubSeq(I, ScalarLen + 1, Len(I))

\* C11: master from seed: new_master fails with InvalidSeed exactly when the
\* seed is shorter than 16 bytes; otherwise it fails with InvalidKey exactly
\* when I_L is zero or at least n; otherwise it returns the key with
\* private_key = I_L, chain_code = I_R, depth 0, a zero parent fingerprint,
\* child_number 0 and the given network.
C11_MasterFromSeed ==
    call.op = "new_master" =>
        LET seed == call.arg.seed
            I == SeedHmac(seed)
            short == Len(seed) < MinSeedLen
            invalid == LeftNumber(I) = 0 \/ LeftNumber(I) >= CurveOrder
        IN /\ IsErr(call.res, "InvalidSeed") <=> short
           /\ ~short => (IsErr(call.res, "InvalidKey") <=> invalid)
           /\ (~short /\ ~invalid) =>
                 /\ IsOk(call.res)
                 /\ call.res.val.key = LeftNumber(I)
                 /\ call.res.val.chain_code = RightHalf(I)
                 /\ call.res.val.depth = 0
                 /\ call.res.val.parent_fingerprint = Zeros(FpLen)
                 /\ call.res.val.child_number = 0
                 /\ call.res.val.network = call.arg.network
                 /\ call.res.val.type = "priv"

\* a seed of exactly 16 bytes gave a testnet master key
C11_Witness ==
    /\ call.op = "new_master"
    /\ Len(call.arg.seed) = MinSeedLen
    /\ call.arg.network = "Testnet"
    /\ IsOk(call.res)
    /\ call.res.val.key = LeftNumber(SeedHmac(call.arg.seed))

\* a seed of 15 bytes was refused
C11_WitnessShort ==
    /\ call.op = "new_master"
    /\ Len(call.arg.seed) = MinSeedLen - 1
    /\ IsErr(call.res, "InvalidSeed")

\* a seed long enough whose I_L is no valid scalar was refused
C11_WitnessInvalidKey ==
    /\ call.op = "new_master"
    /\ Len(call.arg.seed) >= MinSeedLen
    /\ IsErr(call.res, "InvalidKey")

\* C12: the stored child number is the raw index: every successful
\* derive_child, private or public, stores i for Normal(i) and i + 2^31 for
\* Hardened(i), so that the stored number is at least 2^31 exactly when the
\* child was requested as hardened.
C12_RawChildNumber ==
    (call.op \in {"PrivDeriveChild", "PubDeriveChild"} /\ IsOk(call.res)) =>
        /\ call.res.val.child_number =
               IF IsHardenedVariant(call.arg) THEN call.arg.i + MAX_NORMAL_INDEX + 1
               ELSE call.arg.i
        /\ (call.res.val.child_number >= MAX_NORMAL_INDEX + 1)
               <=> IsHardenedVariant(call.arg)

\* the keys derive_child gives along a path, one call after the other:
\* <<K, K/p1, K/p1/p2, ...>>, ending at the first call that returns no key,
\* whose outcome is kept in `last`
RECURSIVE StepByStep(_, _, _, _)
StepByStep(keys, path, i, last) ==
    IF i > Len(path) \/ ~IsOk(last) THEN [keys |-> keys, last |-> last]
    ELSE LET r == PrivDeriveChild(keys[Len(keys)], path[i])
         IN StepByStep(IF IsOk(r) THEN Append(keys, r.val) ELSE keys, path, i + 1, r)

\* C13: path derivation is the in-order fold of CKDpriv: derive_path equals
\* derive_child applied for each element from first to last; for the empty
\* path it returns the key itself; when every step succeeds the result has
\* depth = K.depth + len(P); when a step fails derive_path returns that
\* step's error and applies no later element.
C13_PathIsFold ==
    call.op = "PrivDerivePath" =>
        LET K == call.self
            P == call.arg
            steps_taken == StepByStep(<<K>>, P, 1, Ok(K))
            made == Len(steps_taken.keys) - 1
        IN /\ SameResult(call.res, steps_taken.last)
           /\ P = <<>> => IsOk(call.res) /\ call.res.val = K
           /\ IsOk(call.res) =>
                 /\ made = Len(P)
                 /\ call.res.val = steps_taken.keys[Len(P) + 1]
                 /\ call.res.val.depth = K.depth + Len(P)
           /\ ~IsOk(call.res) => made < Len(P) /\ call.res.hmac <= made + 1

\* the raw index of a child number, as a 32-bit word
RawIndex(cn) ==
    (IF IsHardenedVariant(cn) THEN cn.i + MAX_NORMAL_INDEX + 1 ELSE cn.i) % U32_MOD

\* I = HMAC-SHA512(c_par, 0x00 || ser256(k_par) || ser32(r)) when hardened,
\* HMAC-SHA512(c_par, serP(point(k_par)) || ser32(r)) when normal
ChildHmac(parent, cn) ==
    hmac_sha512(parent.chain_code,
        (IF IsHardenedVariant(cn)
         THEN <<0>> \o ToBeBytes(parent.key, ScalarLen)
         ELSE PublicKey_serialize(PublicKey_from_secret_key(parent.key)))
            \o ToBeBytes(RawIndex(cn), WordBytes))

\* C16: CKDpriv: with I as above, every derive_child that returns fails with
\* InvalidKey exactly when I_L >= n or (I_L + k_par) mod n = 0, and otherwise
\* returns private_key = (I_L + k_par) mod n and chain_code = I_R; it
\* computes one HMAC and does not retry with another index.
C16_CKDpriv ==
    (call.op = "PrivDeriveChild" /\ ~IsPanic(call.res)) =>
        LET I == ChildHmac(call.self, call.arg)
            sum == (LeftNumber(I) + call.self.key) % CurveOrder
            invalid == LeftNumber(I) >= CurveOrder \/ sum = 0
        IN /\ IsErr(call.res, "InvalidKey") <=> invalid
           /\ ~invalid =>
                 /\ IsOk(call.res)
                 /\ call.res.val.key = sum
                 /\ call.res.val.chain_code = RightHalf(I)
           /\ call.res.hmac = 1

\* the last call derived a private key along a path of normal child numbers
NormalPathDerived ==
    /\ call.op = "PrivDerivePath"
    /\ \A j \in 1..Len(call.arg) : ~IsHardenedVariant(call.arg[j])

\* the public derivation along the same path, from the projected key
PublicPathSide == PubDerivePath(to_extended_public_key(call.self), call.arg)

\* C19: private and public path derivation agree on non-hardened paths:
\* K.derive_path(P).to_extended_public_key() equals
\* K.to_extended_public_key().derive_path(P) in every field, one side fails
\* exactly when the other does, and at the same path element.
C19_PathProjectionCommutes ==
    NormalPathDerived =>
        /\ call.res.kind = PublicPathSide.kind
        /\ IsOk(call.res) => to_extended_public_key(call.res.val) = PublicPathSide.val
        /\ ~IsOk(call.res) =>
              /\ call.res.err = PublicPathSide.err
              /\ call.res.hmac = PublicPathSide.hmac

\* two normal steps that succeed on both sides
C19_Witness ==
    /\ NormalPathDerived
    /\ Len(call.arg) = 2
    /\ IsOk(call.res)
    /\ call.res.val.depth = 2
    /\ to_extended_public_key(call.res.val) = PublicPathSide.val

\* a path of two normal steps that fails with InvalidKey on both sides
C19_WitnessFails ==
    /\ NormalPathDerived
    /\ Len(call.arg) = 2
    /\ IsErr(call.res, "InvalidKey")
    /\ IsErr(PublicPathSide, "InvalidKey")

(***************************************************************************)
(* Claims about the path algebra, checked under SpecPath                   *)
(***************************************************************************)
InRange(cn) == cn.i <= MAX_NORMAL_INDEX

\* C6: path round trip: for every path whose child numbers have an index
\* of at most 2^31-1, the empty path included, parsing the displayed text
\* succeeds and returns the path.
C6_PathRoundTrip ==
    (/\ call.op = "DerivationPathFromStr"
     /\ call.arg.op = "DerivationPathDisplay"
     /\ \A j \in 1..Len(call.arg.self.path) : InRange(call.arg.self.path[j])) =>
        IsOk(call.res) /\ call.res.val = call.arg.self

\* a path with a hardened and a normal element, displayed and parsed back
C6_Witness ==
    /\ call.op = "DerivationPathFromStr"
    /\ call.arg.op = "DerivationPathDisplay"
    /\ call.arg.self.path = <<Hardened(MAX_NORMAL_INDEX), Normal(0)>>
    /\ call.self.chars = <<"m", "/">> \o DisplayU32(MAX_NORMAL_INDEX) \o <<"'", "/", "0">>
    /\ IsOk(call.res)

\* the empty path, displayed as "m" and parsed back
C6_WitnessEmpty ==
    /\ call.op = "DerivationPathFromStr"
    /\ call.arg.op = "DerivationPathDisplay"
    /\ call.arg.self.path = <<>>
    /\ call.self.chars = <<"m">>
    /\ IsOk(call.res)

\* the child numbers the last call produced
ProducedChildNumbers ==
    IF ~IsOk(call.res) THEN {}
    ELSE IF call.op = "ChildNumberFromStr" THEN {call.res.val}
    ELSE IF call.op \in {"DerivationPathFromStr", "to_derivation_path"}
         THEN {call.res.val.path[j] : j \in 1..Len(call.res.val.path)}
    ELSE {}

\* token texts whose number exceeds 2^31-1
OverlongTokens ==
    {DisplayU32(v) \o x : v \in {MAX_NORMAL_INDEX + 1, U32_MAX, U32_MOD},
                          x \in {<<>>, <<"'">>, <<"h">>}}

\* C7: child-number invariant: every ChildNumber produced by parsing a
\* token or a path, or by projecting a Bip44Path built with new, standard
\* or from_str, has an index of at most 2^31-1; and parsing a token whose
\* number exceeds 2^31-1 fails with InvalidDerivationPath.
C7_ChildNumberInRange ==
    /\ \A cn \in ProducedChildNumbers : InRange(cn)
    /\ (call.op = "ChildNumberFromStr" /\ call.self.chars \in OverlongTokens) =>
            IsErr(call.res, "InvalidDerivationPath")

\* the text parses as a general path of five elements, the first three
\* hardened, the fourth Normal(0) or Normal(1), the fifth normal
IsBip44Shaped(general) ==
    /\ IsOk(general)
    /\ Len(general.val.path) = 5
    /\ \A j \in 1..3 : general.val.path[j].tag = "Hardened"
    /\ general.val.path[4].tag = "Normal" /\ general.val.path[4].i \in {0, 1}
    /\ general.val.path[5].tag = "Normal"

\* C14: Bip44Path::from_str succeeds exactly on the texts that parse as a
\* general path of five elements with the first three hardened, the fourth
\* Normal(0) or Normal(1) and the fifth normal; then purpose, coin_type,
\* account and address_index carry the parsed indices and change is
\* External for 0, Internal for 1; every other text fails with
\* InvalidDerivationPath.
C14_Bip44FromStr ==
    call.op = "Bip44FromStr" =>
        LET general == DerivationPathFromStr(call.self.chars)
        IN /\ IsOk(call.res) <=> IsBip44Shaped(general)
           /\ IsBip44Shaped(general) =>
                 /\ call.res.val.purpose = general.val.path[1].i
                 /\ call.res.val.coin_type = general.val.path[2].i
                 /\ call.res.val.account = general.val.path[3].i
                 /\ call.res.val.change =
                        (IF general.val.path[4].i = 0 THEN "External" ELSE "Internal")
                 /\ call.res.val.address_index = general.val.path[5].i
           /\ ~IsBip44Shaped(general) => IsErr(call.res, "InvalidDerivationPath")

\* m/0'/1h/0'/1/2 read as coin type 1, the internal chain, address 2
C14_Witness ==
    /\ call.op = "Bip44FromStr"
    /\ call.self.chars = <<"m", "/", "0", "'", "/", "1", "h", "/", "0", "'", "/", "1", "/", "2">>
    /\ IsOk(call.res)
    /\ call.res.val = Bip44New(0, 1, 0, "Internal", 2)

\* m/0'/0'/0'/2/0: a change level that is neither 0 nor 1
C14_WitnessChange ==
    /\ call.op = "Bip44FromStr"
    /\ call.self.chars = <<"m", "/", "0", "'", "/", "0", "'", "/", "0", "'", "/", "2", "/", "0">>
    /\ IsErr(call.res, "InvalidDerivationPath")

\* m/0'/0'/0'/0: four levels
C14_WitnessCount ==
    /\ call.op = "Bip44FromStr"
    /\ call.self.chars = <<"m", "/", "0", "'", "/", "0", "'", "/", "0", "'", "/", "0">>
    /\ IsErr(call.res, "InvalidDerivationPath")

\* C15: text round trip of Bip44Path through the path algebra: for every
\* Bip44Path p, p.to_string() equals p.to_derivation_path().to_string(), has
\* the form m/{p}'/{c}'/{a}'/{ch}/{i}, and Bip44Path::from_str of it succeeds
\* and returns p.
C15_Bip44RoundTrip ==
    /\ call.op = "Bip44Display" =>
           LET p == call.self
           IN /\ call.res.val.chars = DerivationPathDisplay(to_derivation_path(p))
              /\ call.res.val.chars =
                     JoinTokens(<<Append(DisplayU32(p.purpose), "'"),
                                  Append(DisplayU32(p.coin_type), "'"),
                                  Append(DisplayU32(p.account), "'"),
                                  IF p.change = "External" THEN <<"0">> ELSE <<"1">>,
                                  DisplayU32(p.address_index)>>, 1, <<"m">>)
    /\ (call.op = "Bip44FromStr" /\ call.arg.op = "Bip44Display") =>
           IsOk(call.res) /\ call.res.val = call.arg.self

\* the number a sequence of decimal digits writes
RECURSIVE DecimalValue(_)
DecimalValue(digits) ==
    IF digits = <<>> THEN 0
    ELSE 10 * DecimalValue(SubSeq(digits, 1, Len(digits) - 1))
             + DigitValue(digits[Len(digits)])

\* a decimal number of at most 2^31-1
IsIndexText(t) ==
    /\ t # <<>>
    /\ \A j \in 1..Len(t) : IsDigit(t[j])
    /\ DecimalValue(t) <= MAX_NORMAL_INDEX

\* a token stripped of one hardening mark, if it ends in one
Unmarked(t) ==
    IF t # <<>> /\ t[Len(t)] \in {"'", "h"} THEN SubSeq(t, 1, Len(t) - 1) ELSE t

\* the child number a well-formed token stands for
TokenChild(t) ==
    IF Unmarked(t) = t THEN Normal(DecimalValue(t)) ELSE Hardened(DecimalValue(Unmarked(t)))

\* C17: path parsing: "m" is the empty path; after "m/" the rest is split
\* on '/', empty segments are ignored and the child numbers of the other
\* tokens are returned in order, with InvalidDerivationPath if a token is not
\* a decimal number of at most 2^31-1 optionally followed by one ' or h;
\* every other text fails with InvalidDerivationPath.  N' and Nh give the
\* same Hardened(N), and display writes only N'.
C17_PathParsing ==
    /\ call.op = "DerivationPathFromStr" =>
           LET text == call.self.chars
               pieces == SplitSlash(SubSeq(text, 3, Len(text)), 1, <<>>, <<>>)
               tokens == SelectSeq(pieces, LAMBDA t : t # <<>>)
           IN IF text = <<"m">> THEN IsOk(call.res) /\ call.res.val.path = <<>>
              ELSE IF Len(text) >= 2 /\ text[1] = "m" /\ text[2] = "/"
                      /\ \A j \in 1..Len(tokens) : IsIndexText(Unmarked(tokens[j]))
                   THEN /\ IsOk(call.res)
                        /\ call.res.val.path = [j \in 1..Len(tokens) |-> TokenChild(tokens[j])]
                   ELSE IsErr(call.res, "InvalidDerivationPath")
    /\ call.op = "DerivationPathDisplay" =>
           \A j \in 1..Len(call.res.val.chars) : call.res.val.chars[j] # "h"

(***************************************************************************)
(* Claims about the key codec, checked under SpecCodec                     *)
(***************************************************************************)
\* the text read by the last call was written by to_string of a key
ReadBack(write, read) == call.op = read /\ call.arg.op = write

\* C2: text round trip of extended keys: from_string of the text to_string
\* wrote succeeds and returns a key equal to the written key in every field,
\* for private keys and for public keys.
C2_TextRoundTrip ==
    /\ ReadBack("PrivToString", "PrivFromString") =>
           IsOk(call.res) /\ call.res.val = call.arg.self
    /\ ReadBack("PubToString", "PubFromString") =>
           IsOk(call.res) /\ call.res.val = call.arg.self

\* a testnet private key at depth 255 with the largest child number, read back
C2_Witness ==
    /\ ReadBack("PrivToString", "PrivFromString")
    /\ call.arg.self.depth = U8_MAX
    /\ call.arg.self.child_number = U32_MAX
    /\ call.arg.self.network = "Testnet"
    /\ call.arg.self.key = CurveOrder - 1
    /\ call.res.val = call.arg.self

\* a public key at depth 255, read back
C2_WitnessPub ==
    /\ ReadBack("PubToString", "PubFromString")
    /\ call.arg.self.depth = U8_MAX
    /\ call.arg.self.network = "Testnet"
    /\ call.res.val = call.arg.self

\* the outcome the order of checks gives a text made by hand
FirstFailingCheck(f) ==
    IF f.alien # 0 THEN "Base58DecodeError"
    ELSE IF f.checksum THEN "InvalidChecksum"
    ELSE IF f.len # 0 THEN "InvalidExtendedKey"
    ELSE IF f.version # "priv" THEN "InvalidExtendedKey"
    ELSE IF f.prefix # 0 THEN "InvalidExtendedKey"
    ELSE IF f.scalar \in OutOfRangeScalars THEN "InvalidKey"
    ELSE "Ok"

\* C9: ExtendedPrivKey::from_string rejects by the first failing check, in
\* the order: a character outside Base58 -> Base58DecodeError, a checksum
\* mismatch -> InvalidChecksum, a payload not of the record's length ->
\* InvalidExtendedKey, a version that is no private prefix ->
\* InvalidExtendedKey, a nonzero byte before the scalar -> InvalidExtendedKey,
\* an invalid scalar -> InvalidKey; a record with one checksum byte changed
\* gives InvalidChecksum.
C9_RejectionOrder ==
    ReadBack("Craft", "PrivFromString") =>
        LET expected == FirstFailingCheck(call.arg.arg)
        IN IF expected = "Ok" THEN IsOk(call.res) ELSE IsErr(call.res, expected)

\* a record of the right length whose version is public, whose byte before
\* the scalar is 1 and whose scalar is zero: the version decides
C9_Witness ==
    /\ ReadBack("Craft", "PrivFromString")
    /\ call.arg.arg = [alien |-> 0, checksum |-> FALSE, len |-> 0,
                       version |-> "pub", prefix |-> 1, scalar |-> 0]
    /\ IsErr(call.res, "InvalidExtendedKey")

\* a well-formed record with one checksum byte changed
C9_WitnessChecksum ==
    /\ ReadBack("Craft", "PrivFromString")
    /\ call.arg.arg = [alien |-> 0, checksum |-> TRUE, len |-> 0,
                       version |-> "priv", prefix |-> 0, scalar |-> 1]
    /\ IsErr(call.res, "InvalidChecksum")

\* a record one byte too long with a valid checksum and an invalid scalar
C9_WitnessLength ==
    /\ ReadBack("Craft", "PrivFromString")
    /\ call.arg.arg = [alien |-> 0, checksum |-> FALSE, len |-> 1,
                       version |-> "priv", prefix |-> 0, scalar |-> CurveOrder]
    /\ IsErr(call.res, "InvalidExtendedKey")

\* the last call read, with from_string of its own kind, the text of a key
\* with one bit flipped
ReadFlipped ==
    /\ call.op \in {"PrivFromString", "PubFromString"}
    /\ call.arg.op = "FlipBit"
    /\ (call.op = "PrivFromString") <=> (call.arg.self.type = "priv")

\* C10 as stated: checksum rejection: from_string of the text of a key with
\* any single bit flipped fails with Base58DecodeError or InvalidChecksum.
C10_FlipRejected ==
    ReadFlipped =>
        IsErr(call.res, "Base58DecodeError") \/ IsErr(call.res, "InvalidChecksum")

\* the bytes of the text end in the checksum of the bytes before them
IsBase58Check(text) ==
    LET decoded == bs58_decode(text)
    IN /\ IsOk(decoded)
       /\ Len(decoded.val) >= ChecksumLen
       /\ LET at == Len(decoded.val) - ChecksumLen
          IN Slice(decoded.val, at, Len(decoded.val)) = checksum(Slice(decoded.val, 0, at))

\* C10 as amended: from_string of the text of a key with one bit flipped
\* never returns that key; it fails with Base58DecodeError when the changed
\* character is outside the alphabet, and with InvalidChecksum otherwise,
\* unless the changed text ends in the checksum of its own payload.
C10_FlipNotAccepted ==
    ReadFlipped =>
        /\ ~(IsOk(call.res) /\ call.res.val = call.arg.self)
        /\ (\E j \in 1..Len(call.self.chars) : call.self.chars[j] \notin Base58Chars)
               => IsErr(call.res, "Base58DecodeError")
        /\ ((\A j \in 1..Len(call.self.chars) : call.self.chars[j] \in Base58Chars)
               /\ ~IsBase58Check(call.self.chars))
               => IsErr(call.res, "InvalidChecksum")

\* a flip that leaves the character in the alphabet and is caught by the
\* checksum
C10_Witness ==
    /\ ReadFlipped
    /\ \A j \in 1..Len(call.self.chars) : call.self.chars[j] \in Base58Chars
    /\ IsErr(call.res, "InvalidChecksum")

\* a flip that takes the character out of the alphabet
C10_WitnessAlien ==
    /\ ReadFlipped
    /\ call.arg.arg.bit = BitsPerChar - 1
    /\ IsErr(call.res, "Base58DecodeError")

\* a flip the checksum does not catch
C10_WitnessCollision ==
    /\ ReadFlipped
    /\ IsBase58Check(call.self.chars)

\* the payload of a Base58Check text
PayloadOf(text) == base58check_decode(text).val

\* field by field, the record of a key: version, depth, parent fingerprint,
\* child number big-endian, chain code, key bytes
IsRecordOf(record, self, version, key_bytes) ==
    /\ Len(record) = VersionLen + DepthLen + FpLen + WordBytes + CcLen + PointLen
    /\ SubSeq(record, 1, VersionLen) = version
    /\ record[VersionLen + 1] = self.depth
    /\ SubSeq(record, VersionLen + DepthLen + 1, VersionLen + DepthLen + FpLen)
           = self.parent_fingerprint
    /\ FromBeBytes(SubSeq(record, VersionLen + DepthLen + FpLen + 1,
                          VersionLen + DepthLen + FpLen + WordBytes))
           = self.child_number
    /\ SubSeq(record, VersionLen + DepthLen + FpLen + WordBytes + 1,
              VersionLen + DepthLen + FpLen + WordBytes + CcLen) = self.chain_code
    /\ SubSeq(record, Len(record) - PointLen + 1, Len(record)) = key_bytes

\* from_string read a checksum-valid text whose payload has the record's length
ReadRecord(read) ==
    /\ call.op = read
    /\ IsOk(base58check_decode(call.self.chars))
    /\ Len(PayloadOf(call.self.chars)) = RecordLen

\* what from_string does with the version of a record of the right length
VersionGates(versions) ==
    LET version == SubSeq(PayloadOf(call.self.chars), 1, VersionLen)
    IN /\ (\A n \in Networks : versions[n] # version)
              => IsErr(call.res, "InvalidExtendedKey")
       /\ IsOk(call.res) => versions[call.res.val.network] = version

C18_WitnessNetwork ==
    /\ ReadRecord("PubFromString")
    /\ call.arg.op = "PubToString"
    /\ IsOk(call.res)
    /\ call.res.val.network = "Testnet"

\* a private key at depth 255 written as a record
C18_WitnessLayout ==
    /\ call.op = "PrivToString"
    /\ call.self.depth = U8_MAX
    /\ PayloadOf(call.res.val.chars)[VersionLen + 1] = U8_MAX
    /\ Len(PayloadOf(call.res.val.chars)) = RecordLen

====
